---- MODULE Spec2Model ----
(***************************************************************************)
(* ConnectN: the bitboard, the evaluator, the move generator, the game     *)
(* driver and the two search agents of connect_n.h and main.cpp            *)
(* (src/unnamed/part_000).                                                  *)
(*                                                                         *)
(* Board<S_ROWS, S_COLS> is a template; the model instantiates it at       *)
(* Rows x Cols with connection length N, small enough to enumerate: main   *)
(* plays 6 x 7 with connectN = 4, the model 3 x 3 with N = 3.              *)
(* std::optional<T> is modelled as a set: {} is the absent value, {v} the  *)
(* present one.  A std::bitset is modelled as the set of its set indices.  *)
(* long is taken 32 bits wide; only its two limits are used as scores.     *)
(*                                                                         *)
(* Reads of storage that holds no value are draws from a set of values:    *)
(* res.back() on an empty vector in generateValidPositions (u, drawn from  *)
(* Garbage), positions[0] on an empty move list in alphabeta (w).  A       *)
(* dereference of nullptr and rand() % 0 stop the program (pc "crashed").  *)
(***************************************************************************)
EXTENDS Integers, Sequences, FiniteSets, TLC

VARIABLES
    board,          \* the Board object: [pos |-> m_positivePieces, neg |-> m_negativePieces]
    currentPlayer,  \* Game::currentPlayer, named by the tile of the registered player
    isGameOver,     \* Game::isGameOver
    last,           \* observation of the last operation: what it was given and what it returned
    mcts,           \* the monteCarloTreeSearch call in progress: its tree, locals and position
    loopIndex       \* the loop variable i of Game::gameLoop

vars == <<board, currentPlayer, isGameOver, last, mcts, loopIndex>>

-----------------------------------------------------------------------------
(* Template parameters and program constants *)

Rows == 3
Cols == 3
N == 3

Negative == -1
Empty == 0
Positive == 1

LongMax == 2147483647
LongMin == -LongMax - 1

-----------------------------------------------------------------------------
(* Bounds of the exploration *)

\* SpecBoard explores the boards that hold at most MaxBits bits
MaxBits == 3

\* SpecGame and SpecOwnTile let an agent return any move while the board
\* holds fewer than MaxFree bits
MaxFree == 2

\* the deepest search a MinimaxPlayer is constructed with
MaxDepth == 3

\* the largest number of simulations a MonteCarloPlayer is constructed with
MaxSims == 3

\* a MonteCarloPlayer searches on boards with at most MaxEmpty empty cells
MaxEmpty == 3

\* SpecLoop follows to their end the games with at most MaxFailed failed turns
MaxFailed == 1

-----------------------------------------------------------------------------
(* Vec2i, Tile, Move *)

Vec(a, b) == [x |-> a, y |-> b]

Mv(p, t) == [pos |-> p, tile |-> t]

Tiles == {Negative, Empty, Positive}

getEnemyTile(t) ==
    IF t = Negative THEN Positive
    ELSE IF t = Positive THEN Negative
    ELSE Empty

\* positions one step outside the grid on every side are enough to exercise
\* every branch of isValidPosition
Positions == {Vec(a, b) : a \in -1..Cols, b \in -1..Rows}

Moves == {Mv(p, t) : p \in Positions, t \in Tiles}

-----------------------------------------------------------------------------
(* Board *)

EmptyBoard == [pos |-> {}, neg |-> {}]

isValidPosition(p) ==
    ~(p.x < 0 \/ p.x >= Cols \/ p.y < 0 \/ p.y >= Rows)

index(p) == p.y * Cols + p.x

\* Board::operator[]
at(b, p) ==
    IF ~isValidPosition(p) THEN {}
    ELSE IF index(p) \in b.pos THEN {Positive}
    ELSE IF index(p) \in b.neg THEN {Negative}
    ELSE {Empty}

\* Board::operator<<
place(b, m) ==
    IF ~isValidPosition(m.pos) THEN [ok |-> FALSE, board |-> b]
    ELSE IF m.pos.y + 1 # Rows /\ at(b, Vec(m.pos.x, m.pos.y + 1)) = {Empty}
        THEN [ok |-> FALSE, board |-> b]
    ELSE IF m.tile = Positive
        THEN [ok |-> TRUE, board |-> [b EXCEPT !.pos = @ \cup {index(m.pos)}]]
    ELSE IF m.tile = Negative
        THEN [ok |-> TRUE, board |-> [b EXCEPT !.neg = @ \cup {index(m.pos)}]]
    ELSE [ok |-> FALSE, board |-> b]

\* a mutant of remove that clears the cell in both bit-sets
removeBoth(b, m) ==
    IF ~isValidPosition(m.pos) THEN [ok |-> FALSE, board |-> b]
    ELSE IF m.tile \in {Positive, Negative}
        THEN [ok |-> TRUE, board |-> [pos |-> b.pos \ {index(m.pos)},
                                      neg |-> b.neg \ {index(m.pos)}]]
    ELSE [ok |-> FALSE, board |-> b]

\* Board::operator>>
remove(b, m) ==
    IF ~isValidPosition(m.pos) THEN [ok |-> FALSE, board |-> b]
    ELSE IF m.tile = Positive
        THEN [ok |-> TRUE, board |-> [b EXCEPT !.pos = @ \ {index(m.pos)}]]
    ELSE IF m.tile = Negative
        THEN [ok |-> TRUE, board |-> [b EXCEPT !.neg = @ \ {index(m.pos)}]]
    ELSE [ok |-> FALSE, board |-> b]

nBits(b) == Cardinality(b.pos) + Cardinality(b.neg)

-----------------------------------------------------------------------------
(* Evaluator *)

Directions == <<Vec(1, 0), Vec(0, 1), Vec(1, -1), Vec(1, 1)>>

Neg(d) == Vec(-d.x, -d.y)

\* std::pow(10, count); count stays below N where the score is accumulated
RECURSIVE Pow10(_)
Pow10(c) == IF c <= 0 THEN 1 ELSE 10 * Pow10(c - 1)

\* a mutant of contribution that drops the sign of the tile
contributionUnsigned(count, lastTile) == Pow10(count)

\* the term a cell adds to the score for one direction
contribution(count, lastTile) == Pow10(count) * lastTile

\* numeric_limits<long>::max() for a Positive run, min() otherwise
Saturated(t) == IF t = Positive THEN LongMax ELSE LongMin

\* the loop of the check lambda from step i on
RECURSIVE checkFrom(_, _, _, _, _)
checkFrom(b, p, d, lastTile, i) ==
    IF i >= N THEN 0
    ELSE LET current == Vec(p.x + d.x * i, p.y + d.y * i) IN
         IF current.x < 0 \/ current.x >= Cols \/ current.y < 0 \/ current.y >= Rows
            THEN 0
         ELSE IF at(b, current) # {lastTile} THEN 0
         ELSE 1 + checkFrom(b, p, d, lastTile, i + 1)

\* a mutant of check that stops one step short
checkShort(b, p, d, lastTile) ==
    LET c == checkFrom(b, p, d, lastTile, 1) IN IF c = N - 1 THEN c - 1 ELSE c

\* the check lambda of evaluate: the tiles equal to lastTile that follow p in
\* direction d, at most N - 1
check(b, p, d, lastTile) == checkFrom(b, p, d, lastTile, 1)

\* the draw check shared by both overloads of evaluate
isDraw(b) == \A i \in 0..(Cols - 1) : at(b, Vec(i, 0)) # {Empty}

\* the value of a present optional
ValueOf(opt) == CHOOSE v \in opt : TRUE

\* the pair evaluate returns for a run of lastTile
wonBy(lastTile) == [first |-> {lastTile}, second |-> Saturated(lastTile)]

\* a mutant of noRun that leaves out the draw check
noRunNoDraw(b, score) == [first |-> {}, second |-> score]

\* the end of both overloads, reached when no run was found: the draw check,
\* then the accumulated score
noRun(b, score) ==
    IF isDraw(b) THEN [first |-> {0}, second |-> 0]
    ELSE [first |-> {}, second |-> score]

\* the loop over directions of evaluate(board) for the cell p holding
\* lastTile, from the j-th direction on: count is tested after the run along
\* the direction and again after the run against it; won tells that the
\* function returned from inside the loop, score is what the remaining
\* directions add
RECURSIVE scanDirections(_, _, _, _)
scanDirections(b, p, lastTile, j) ==
    IF j > Len(Directions) THEN [won |-> FALSE, score |-> 0]
    ELSE LET count1 == 1 + check(b, p, Directions[j], lastTile) IN
         IF count1 >= N THEN [won |-> TRUE, score |-> 0]
         ELSE LET count2 == count1 + check(b, p, Neg(Directions[j]), lastTile) IN
              IF count2 >= N THEN [won |-> TRUE, score |-> 0]
              ELSE LET r == scanDirections(b, p, lastTile, j + 1) IN
                   [r EXCEPT !.score = @ + contribution(count2, lastTile)]

\* the loops over the cells of evaluate(board) from cell c on (row by row, y
\* outer, x inner), with the score accumulated so far; an empty cell is
\* skipped
RECURSIVE scan(_, _, _)
scan(b, c, score) ==
    IF c >= Rows * Cols THEN noRun(b, score)
    ELSE LET p == Vec(c % Cols, c \div Cols)
             tOpt == at(b, p)
             r == IF tOpt = {} \/ tOpt = {Empty}
                    THEN [won |-> FALSE, score |-> 0]
                    ELSE scanDirections(b, p, ValueOf(tOpt), 1)
         IN
         IF r.won THEN wonBy(ValueOf(tOpt))
         ELSE scan(b, c + 1, score + r.score)

\* evaluate(board): the pair (first, second)
evaluate(b) == scan(b, 0, 0)

\* the direction loop of evaluate(board, lastPosition) from direction k on
RECURSIVE scanLast(_, _, _, _, _)
scanLast(b, p, lastTile, k, score) ==
    IF k > 4 THEN noRun(b, score)
    ELSE LET d == Directions[k]
             count1 == 1 + check(b, p, d, lastTile)
             count2 == count1 + check(b, p, Neg(d), lastTile)
         IN
         IF count1 >= N THEN wonBy(lastTile)
         ELSE IF count2 >= N THEN wonBy(lastTile)
         ELSE scanLast(b, p, lastTile, k + 1, score + contribution(count2, lastTile))

\* a mutant of evaluateLast that leaves out the horizontal and the vertical
\* direction
evaluateLastDiagonals(b, lastPosition) ==
    LET tOpt == at(b, lastPosition) IN
    IF tOpt = {} \/ tOpt = {Empty} THEN [first |-> {}, second |-> 0]
    ELSE scanLast(b, lastPosition, ValueOf(tOpt), 3, 0)

\* evaluate(board, lastPosition); return {} is (absent, 0)
evaluateLast(b, lastPosition) ==
    LET tOpt == at(b, lastPosition) IN
    IF tOpt = {} \/ tOpt = {Empty} THEN [first |-> {}, second |-> 0]
    ELSE scanLast(b, lastPosition, ValueOf(tOpt), 1, 0)

-----------------------------------------------------------------------------
(* Move generator *)

\* res.back() on an empty vector reads the memory before the vector's
\* buffer, whose content the program does not control: what it reads is an
\* input u of the operator, chosen from Garbage by the action that calls it.
\* x = -1 stands for every value that is no column index.
GarbageX == -1..(Cols - 1)

Garbage == {Vec(a, 0) : a \in GarbageX}

MinOf(S) == CHOOSE v \in S : \A w \in S : v <= w

MaxOf(S) == CHOOSE v \in S : \A w \in S : v >= w

\* res.back().x
backX(res, u) == IF Len(res) = 0 THEN u.x ELSE res[Len(res)].x

\* the loop over the levels of column x: the cell above the topmost piece
\* is pushed, nothing when the column holds no piece
pushLevel(b, x, res) ==
    LET levels == {l \in 1..(Rows - 1) : at(b, Vec(x, l)) # {Empty}} IN
    IF levels # {} THEN Append(res, Vec(x, MinOf(levels) - 1)) ELSE res

\* the body of the column loop of generateValidPositions for column x
genColumn(b, x, res, u) ==
    IF at(b, Vec(x, 0)) # {Empty} THEN res
    ELSE LET res1 == pushLevel(b, x, res)
         IN IF backX(res1, u) # x THEN Append(res1, Vec(x, Rows - 1)) ELSE res1

RECURSIVE genFrom(_, _, _, _)
genFrom(b, x, res, u) ==
    IF x >= Cols THEN res ELSE genFrom(b, x + 1, genColumn(b, x, res, u), u)

\* whether the column loop, from column x on with the result res, evaluates
\* res.back() while the result is empty
RECURSIVE readsBackOfEmpty(_, _, _, _)
readsBackOfEmpty(b, x, res, u) ==
    IF x >= Cols THEN FALSE
    ELSE IF at(b, Vec(x, 0)) # {Empty} THEN readsBackOfEmpty(b, x + 1, res, u)
    ELSE \/ Len(pushLevel(b, x, res)) = 0
         \/ readsBackOfEmpty(b, x + 1, genColumn(b, x, res, u), u)

generateValidPositions(b, u) == genFrom(b, 0, <<>>, u)

\* the values of the read that a search starting from board b is followed
\* for.  res.back() is read on an empty result only when a column with no
\* piece is reached before any position was pushed, and the boards of a
\* search from b hold every piece of b: when b has a piece in every column
\* the value is never used and one value stands for all.
Reads(b) ==
    IF \E x \in 0..(Cols - 1) : \A y \in 0..(Rows - 1) : at(b, Vec(x, y)) = {Empty}
        THEN Garbage
        ELSE {Vec(-1, 0)}

-----------------------------------------------------------------------------
(* Reference notions the claims are stated in; none is used by the code *)

AllCells == {Vec(a, b) : a \in 0..(Cols - 1), b \in 0..(Rows - 1)}

Occupied(b, p) == at(b, p) \in {{Positive}, {Negative}}

\* the move's position lies in a column with no empty cell
InFullColumn(b, p) ==
    isValidPosition(p) /\ \A r \in 0..(Rows - 1) : Occupied(b, Vec(p.x, r))

\* the move's position is above the bottom row with an empty cell below it
Unsupported(b, p) ==
    isValidPosition(p) /\ p.y + 1 < Rows /\ at(b, Vec(p.x, p.y + 1)) = {Empty}

Disjoint(b) == b.pos \cap b.neg = {}

Gravity(b) ==
    \A p \in AllCells :
        Occupied(b, p) => \A r \in (p.y + 1)..(Rows - 1) : Occupied(b, Vec(p.x, r))

\* the bit of the move's tile at the move's position is set
BitSet(b, m) ==
    /\ isValidPosition(m.pos)
    /\ \/ m.tile = Positive /\ index(m.pos) \in b.pos
       \/ m.tile = Negative /\ index(m.pos) \in b.neg

-----------------------------------------------------------------------------
(* The Board object driven through its public operations with any move *)

NoMove == Mv(Vec(0, 0), Empty)

Obs(o, m, k, r, t) == [op |-> o, move |-> m, ok |-> k, res |-> r, tag |-> t]

\* no monteCarloTreeSearch call is in progress
NoSearch == [pc |-> "idle"]

\* which case of a placement a move is on a board
MoveCase(b, m) ==
    IF ~isValidPosition(m.pos) THEN "range"
    ELSE IF m.tile = Empty THEN "emptyTile"
    ELSE IF Unsupported(b, m.pos) THEN "unsupported"
    ELSE IF BitSet(b, m) THEN "sameBit"
    ELSE IF Occupied(b, m.pos) THEN "occupied"
    ELSE "fresh"

InitBoard ==
    /\ board = EmptyBoard
    /\ currentPlayer = Positive
    /\ isGameOver = FALSE
    /\ last = Obs("init", NoMove, FALSE, {}, "")
    /\ mcts = NoSearch
    /\ loopIndex = 0

\* SpecBoard records the case of the move, not the move: its invariants
\* quantify over every move on the board reached
Placed(r, tag) ==
    /\ nBits(r.board) <= MaxBits
    /\ board' = r.board
    /\ last' = Obs("place", NoMove, r.ok, {}, tag)
    /\ UNCHANGED <<currentPlayer, isGameOver, mcts, loopIndex>>

Place(m) == Placed(place(board, m), MoveCase(board, m))

Removed(r, tag) ==
    /\ board' = r.board
    /\ last' = Obs("remove", NoMove, r.ok, {}, tag)
    /\ UNCHANGED <<currentPlayer, isGameOver, mcts, loopIndex>>

Remove(m) == Removed(remove(board, m), MoveCase(board, m))

PlacedThenRemoved(r, m, tag) ==
    /\ board' = remove(r.board, m).board
    /\ last' = Obs("placeRemove", NoMove, r.ok, {}, tag)
    /\ UNCHANGED <<currentPlayer, isGameOver, mcts, loopIndex>>

\* board << m; board >> m; as alphabeta tries a move and takes it back
PlaceThenRemove(m) == PlacedThenRemoved(place(board, m), m, MoveCase(board, m))

NextBoard ==
    \/ \E m \in Moves : Place(m)
    \/ \E m \in Moves : Remove(m)
    \/ \E m \in Moves : PlaceThenRemove(m)

SpecBoard == InitBoard /\ [][NextBoard]_vars

-----------------------------------------------------------------------------
(* The Board object filled by supported placements of either colour, and   *)
(* the evaluator and the move generator applied to it: every board that    *)
(* respects gravity and holds at most one colour per cell                  *)

Swap(b) == [pos |-> b.neg, neg |-> b.pos]

\* a placement of either colour on an empty supported cell
Dropped(r) ==
    /\ board' = r.board
    /\ last' = Obs("place", NoMove, r.ok, {}, "fresh")
    /\ UNCHANGED <<currentPlayer, isGameOver, mcts, loopIndex>>

Drop(m) ==
    /\ MoveCase(board, m) = "fresh"
    /\ Dropped(place(board, m))

Evaluate ==
    /\ last' = Obs("evaluate", NoMove, TRUE, evaluate(board).first, "")
    /\ UNCHANGED <<board, currentPlayer, isGameOver, mcts, loopIndex>>

Generate(u) ==
    /\ last' = Obs("generate", NoMove, TRUE, {}, generateValidPositions(board, u))
    /\ UNCHANGED <<board, currentPlayer, isGameOver, mcts, loopIndex>>

NextDrop ==
    \/ \E p \in AllCells, t \in {Positive, Negative} : Drop(Mv(p, t))
    \/ Evaluate
    \/ \E u \in Garbage : Generate(u)

SpecDrop == InitBoard /\ [][NextDrop]_vars

-----------------------------------------------------------------------------
(* The incremental evaluator applied after a placement, as makeMove does   *)

\* the board after an accepted placement and what evaluate(board, pos)
\* returns for it
PlacedEvaluated(r, m, tag) ==
    /\ r.ok
    /\ board' = r.board
    /\ last' = Obs("placeEvaluate", m, r.ok, evaluateLast(r.board, m.pos).first, tag)
    /\ UNCHANGED <<currentPlayer, isGameOver, mcts, loopIndex>>

\* board << m, then evaluate(board, m.pos); m is any move the board
\* accepts, on an empty or on an occupied cell
PlaceEvaluate(m) == PlacedEvaluated(place(board, m), m, MoveCase(board, m))

\* the boards are filled by placements of either colour on empty cells, and
\* the placement that is evaluated is the last one
Filling == last.op # "placeEvaluate"

\* a placement is evaluated on the boards with one colour per cell for which
\* evaluate(board) has no terminal result
NextLast ==
    \/ /\ Filling
       /\ \E p \in AllCells, t \in {Positive, Negative} : Drop(Mv(p, t))
    \/ /\ Filling
       /\ evaluate(board).first = {}
       /\ \E p \in AllCells, t \in {Positive, Negative} : PlaceEvaluate(Mv(p, t))

SpecLast == InitBoard /\ [][NextLast]_vars

-----------------------------------------------------------------------------
(* Game driver *)

\* Game::swapPlayers; a player is named by the tile it is registered under,
\* and currentPlayer is always one of the two registered players
swapPlayers(cur) == IF cur = Positive THEN Negative ELSE Positive

\* a mutant of makeMove that swaps the players whether or not the placement
\* succeeded
makeMoveAlwaysSwap(b, cur, over, newMove) ==
    LET r == place(b, newMove) IN
    IF ~over /\ r.ok
        THEN [board |-> r.board, currentPlayer |-> swapPlayers(cur), ok |-> TRUE,
              value |-> evaluateLast(r.board, newMove.pos).first]
        ELSE [board |-> b, currentPlayer |-> swapPlayers(cur), ok |-> FALSE,
              value |-> evaluate(b).first]

\* Game::makeMove, given the move the active agent returned: the board and
\* the active player it leaves, whether it placed, and the value it returns
makeMove(b, cur, over, newMove) ==
    LET r == place(b, newMove) IN
    IF ~over /\ r.ok
        THEN [board |-> r.board, currentPlayer |-> swapPlayers(cur), ok |-> TRUE,
              value |-> evaluateLast(r.board, newMove.pos).first]
        ELSE [board |-> b, currentPlayer |-> cur, ok |-> FALSE,
              value |-> evaluate(b).first]

\* HumanPlayer::getNextMove for the column c read from the input
HumanGetNextMove(b, c, tile) ==
    LET filled == {i \in 0..(Rows - 1) : at(b, Vec(c, i)) # {Empty}}
        y == IF filled = {} THEN Rows - 1 ELSE MinOf(filled) - 1
    IN Mv(Vec(c, y), tile)

InitGame ==
    /\ board = EmptyBoard
    /\ currentPlayer = Positive
    /\ isGameOver = FALSE
    /\ last = Obs("init", NoMove, FALSE, {}, "")
    /\ mcts = NoSearch
    /\ loopIndex = 0

\* the rest of a turn of gameLoop once makeMove has returned r: the loop
\* sets isGameOver and ends when the value is present
EndTurn(r, tag) ==
    /\ board' = r.board
    /\ currentPlayer' = r.currentPlayer
    /\ isGameOver' = (r.value # {})
    /\ last' = Obs("makeMove", NoMove, r.ok, r.value, tag)
    /\ UNCHANGED mcts

\* one turn of gameLoop: makeMove with the move m the active agent returned;
\* no turn is taken once the loop has ended.  The turns are not counted
\* here: a failed turn changes nothing but the count, so every state of a
\* game is reached within fewer than maxLimit turns; SpecLoop counts them
GameTurn(m) ==
    /\ ~isGameOver
    /\ EndTurn(makeMove(board, currentPlayer, isGameOver, m), MoveCase(board, m))
    /\ UNCHANGED loopIndex

\* the moves a Player is taken to return: any tile at any cell of the board
\* or at a position just outside each of its four edges
AgentPositions ==
    AllCells \cup {Vec(-1, 0), Vec(Cols, 0), Vec(0, -1), Vec(0, Rows)}

AgentMoves == {Mv(p, t) : p \in AgentPositions, t \in Tiles}

\* a Player may return any move; the moves of a HumanPlayer are followed
\* to the end of the game, every other move while the board holds fewer than
\* MaxFree bits
NextGame ==
    \/ \E c \in -1..Cols : GameTurn(HumanGetNextMove(board, c, currentPlayer))
    \/ \E m \in AgentMoves : nBits(board) < MaxFree /\ GameTurn(m)

SpecGame == InitGame /\ [][NextGame]_vars

\* a Player that only ever places the tile it is registered under, at any
\* position; explored as in SpecGame
NextOwnTile ==
    \/ \E c \in -1..Cols : GameTurn(HumanGetNextMove(board, c, currentPlayer))
    \/ \E p \in AgentPositions : nBits(board) < MaxFree /\ GameTurn(Mv(p, currentPlayer))

SpecOwnTile == InitGame /\ [][NextOwnTile]_vars

\* two HumanPlayers, each constructed with the tile it is registered under,
\* given any column; and the full-board evaluator applied to the board
NextHuman ==
    \/ \E c \in -1..Cols : GameTurn(HumanGetNextMove(board, c, currentPlayer))
    \/ Evaluate

SpecHuman == InitGame /\ [][NextHuman]_vars

-----------------------------------------------------------------------------
(* Game::gameLoop with its loop variable *)

\* const int maxLimit{1000}
maxLimit == 1000

\* a mutant of loopTest that admits one turn more
loopTestInclusive(idx) == idx <= maxLimit

\* the test of the for loop: i < maxLimit
loopTest(idx) == idx < maxLimit

\* the number of failed turns so far: every successful turn of a
\* HumanPlayer adds one tile
failedTurns(b, idx) == idx - nBits(b)

\* one pass of the for loop with the move m of the active agent: the loop
\* test, makeMove, then break with isGameOver set when the value is present
\* and ++i otherwise
LoopTurn(m) ==
    /\ loopTest(loopIndex)
    /\ ~isGameOver
    /\ EndTurn(makeMove(board, currentPlayer, isGameOver, m), MoveCase(board, m))
    /\ loopIndex' = IF makeMove(board, currentPlayer, isGameOver, m).value # {}
                        THEN loopIndex ELSE loopIndex + 1

\* the game loop run with two HumanPlayers given any column.  Explored are
\* the games in which every turn so far has failed, up to the end of the
\* loop, and the games with at most MaxFailed failed turns
NextLoop ==
    \E c \in -1..Cols :
        /\ IF place(board, HumanGetNextMove(board, c, currentPlayer)).ok
              THEN failedTurns(board, loopIndex) <= MaxFailed
              ELSE failedTurns(board, loopIndex) < MaxFailed \/ board = EmptyBoard
        /\ LoopTurn(HumanGetNextMove(board, c, currentPlayer))

SpecLoop == InitGame /\ [][NextLoop]_vars

\* the game loop run with two agents that return, on every turn, a move of
\* their own tile on an empty cell that is in the bottom row or has a tile
\* below it
NextLegal ==
    \E p \in AllCells :
        /\ MoveCase(board, Mv(p, currentPlayer)) = "fresh"
        /\ LoopTurn(Mv(p, currentPlayer))

\* gameLoop runs on: a pass of the loop that can be made is made
SpecLegal == InitGame /\ [][NextLegal]_vars /\ WF_vars(NextLegal)

-----------------------------------------------------------------------------
(* MinimaxPlayer *)

\* a MinimaxPlayer as constructed: its tile, its enemy's tile, and u, the
\* value that the read of res.back() on an empty result finds during its
\* search
Agent(tile, enemyTile, u) == [m_tile |-> tile, m_enemyTile |-> enemyTile, u |-> u]

\* Move{}, which alphabeta returns at a leaf
DefaultMove == Mv(Vec(0, 0), Empty)

\* the tile alphabeta places at a node
currentTileOf(ag, isEnemy) == IF ~isEnemy THEN ag.m_tile ELSE ag.m_enemyTile

\* whether a node of alphabeta maximises
isMaximisingOf(ag, isEnemy) == IF ag.m_tile = Positive THEN ~isEnemy ELSE isEnemy

\* a mutant of improves that also replaces the move on a tie
improvesOrTies(isMaximising, value, best) ==
    IF isMaximising THEN value >= best ELSE value <= best

\* res.first > maxValue in the maximising loop, res.first < minValue in the
\* minimising loop
improves(isMaximising, value, best) ==
    IF isMaximising THEN value > best ELSE value < best

\* what alphabeta returns: the pair (first, second), the working board as it
\* leaves it, noMoves when second was read from positions[0] of an empty
\* move list, and restored, which records that this invocation and every
\* invocation below it left the working board as it found it
Returned(value, move, b, noMoves, restored) ==
    [first |-> value, second |-> move, board |-> b, noMoves |-> noMoves,
     restored |-> restored]

RECURSIVE alphabeta(_, _, _, _, _, _)
RECURSIVE maxLoop(_, _, _, _, _, _, _, _)
RECURSIVE minLoop(_, _, _, _, _, _, _, _)

\* a mutant of maxLoop that leaves the loop on a cutoff before the move is
\* taken back
maxLoopBreaksFirst(ag, positions, i, st, beta, depth, isEnemy, noMoves) ==
    IF i > Len(positions)
        THEN Returned(st.best, st.resultMove, st.board, noMoves, st.restored)
    ELSE LET m == Mv(positions[i], currentTileOf(ag, isEnemy))
             res == alphabeta(ag, place(st.board, m).board, st.alpha, beta,
                              depth - 1, ~isEnemy)
             better == improves(TRUE, res.first, st.best)
             st1 == [board |-> remove(res.board, m).board,
                     alpha |-> IF res.first > st.alpha THEN res.first ELSE st.alpha,
                     best |-> IF better THEN res.first ELSE st.best,
                     resultMove |-> IF better THEN m ELSE st.resultMove,
                     restored |-> st.restored /\ res.restored]
         IN
         IF beta <= st1.alpha
            THEN Returned(st1.best, st1.resultMove, res.board, noMoves, st1.restored)
            ELSE maxLoop(ag, positions, i + 1, st1, beta, depth, isEnemy, noMoves)

\* the maximising loop of alphabeta from the i-th position on; st holds the
\* working board, alpha, maxValue, resultMove; beta, depth and isEnemy are
\* those of the node
maxLoop(ag, positions, i, st, beta, depth, isEnemy, noMoves) ==
    IF i > Len(positions)
        THEN Returned(st.best, st.resultMove, st.board, noMoves, st.restored)
    ELSE LET m == Mv(positions[i], currentTileOf(ag, isEnemy))
             res == alphabeta(ag, place(st.board, m).board, st.alpha, beta,
                              depth - 1, ~isEnemy)
             better == improves(TRUE, res.first, st.best)
             st1 == [board |-> remove(res.board, m).board,
                     alpha |-> IF res.first > st.alpha THEN res.first ELSE st.alpha,
                     best |-> IF better THEN res.first ELSE st.best,
                     resultMove |-> IF better THEN m ELSE st.resultMove,
                     restored |-> st.restored /\ res.restored]
         IN
         IF beta <= st1.alpha
            THEN Returned(st1.best, st1.resultMove, st1.board, noMoves, st1.restored)
            ELSE maxLoop(ag, positions, i + 1, st1, beta, depth, isEnemy, noMoves)

\* the minimising loop of alphabeta from the i-th position on; st holds the
\* working board, beta, minValue, resultMove; alpha, depth and isEnemy are
\* those of the node
minLoop(ag, positions, i, st, alpha, depth, isEnemy, noMoves) ==
    IF i > Len(positions)
        THEN Returned(st.best, st.resultMove, st.board, noMoves, st.restored)
    ELSE LET m == Mv(positions[i], currentTileOf(ag, isEnemy))
             res == alphabeta(ag, place(st.board, m).board, alpha, st.beta,
                              depth - 1, ~isEnemy)
             better == improves(FALSE, res.first, st.best)
             st1 == [board |-> remove(res.board, m).board,
                     beta |-> IF res.first < st.beta THEN res.first ELSE st.beta,
                     best |-> IF better THEN res.first ELSE st.best,
                     resultMove |-> IF better THEN m ELSE st.resultMove,
                     restored |-> st.restored /\ res.restored]
         IN
         IF st1.beta <= alpha
            THEN Returned(st1.best, st1.resultMove, st1.board, noMoves, st1.restored)
            ELSE minLoop(ag, positions, i + 1, st1, alpha, depth, isEnemy, noMoves)

\* MinimaxPlayer::alphabeta on the working board b; when the move list is
\* empty, positions[0] reads storage that holds no position: second is then
\* DefaultMove.pos with noMoves set, and the caller of getNextMove draws the
\* value read
alphabeta(ag, b, alpha, beta, depth, isEnemy) ==
    LET e == evaluate(b) IN
    IF depth = 0 \/ e.first # {} THEN Returned(e.second, DefaultMove, b, FALSE, TRUE)
    ELSE LET positions == generateValidPositions(b, ag.u)
             noMoves == Len(positions) = 0
             first == Mv(IF noMoves THEN DefaultMove.pos ELSE positions[1],
                         currentTileOf(ag, isEnemy))
             r == IF isMaximisingOf(ag, isEnemy)
                    THEN maxLoop(ag, positions, 1,
                                 [board |-> b, alpha |-> alpha, best |-> LongMin,
                                  resultMove |-> first, restored |-> TRUE],
                                 beta, depth, isEnemy, noMoves)
                    ELSE minLoop(ag, positions, 1,
                                 [board |-> b, beta |-> beta, best |-> LongMax,
                                  resultMove |-> first, restored |-> TRUE],
                                 alpha, depth, isEnemy, noMoves)
         IN [r EXCEPT !.restored = @ /\ r.board = b]

\* MinimaxPlayer::getNextMove: the search on a copy of the board
getNextMove(ag, b, depth) == alphabeta(ag, b, LongMin, LongMax, depth, FALSE)

\* the move getNextMove hands back, w being the position that positions[0]
\* read when the root's move list was empty
MoveOf(r, w) == IF r.noMoves THEN Mv(w, r.second.tile) ELSE r.second

\* the search depths explored
Depths == 1..MaxDepth

\* the answer of the agent is recorded; the board is left to the driver
Asked(r, depth, u) ==
    \E w \in (IF r.noMoves THEN Garbage ELSE {DefaultMove.pos}) :
        /\ last' = Obs("getNextMove", MoveOf(r, w), ~r.noMoves, {r.first},
                       <<depth, u.x, r.restored>>)
        /\ UNCHANGED <<board, currentPlayer, isGameOver, mcts, loopIndex>>

\* the driver's active agent is a MinimaxPlayer of the active tile with
\* search depth depth and is asked for its move at the start of a turn of a
\* game in progress: on the empty board or after a placement
AskMinimax(depth, u) ==
    /\ ~isGameOver
    /\ last.op = "init" \/ (last.op = "makeMove" /\ last.ok)
    /\ \E r \in {getNextMove(Agent(currentPlayer, getEnemyTile(currentPlayer), u),
                             board, depth)} :
           Asked(r, depth, u)

\* a game played by HumanPlayers, in which a MinimaxPlayer is asked for the
\* move it would make
NextMinimax ==
    \/ \E c \in -1..Cols : GameTurn(HumanGetNextMove(board, c, currentPlayer))
    \/ \E depth \in Depths, u \in Reads(board) : AskMinimax(depth, u)

SpecMinimax == InitGame /\ [][NextMinimax]_vars

-----------------------------------------------------------------------------
(* MonteCarloNode and MonteCarloPlayer *)

\* A node of the search tree is named by the moves that lead to it from the
\* root; m_parent is the path without its last move and children are the
\* paths one move longer.  A pointer is the set holding that path, nullptr
\* the empty set.
Root == <<>>

IsPrefix(x, q) == Len(x) <= Len(q) /\ SubSeq(q, 1, Len(x)) = x

Children(nodes, p) ==
    {q \in DOMAIN nodes : Len(q) = Len(p) + 1 /\ SubSeq(q, 1, Len(p)) = p}

\* the constructor of MonteCarloNode
MonteCarloNode(t_turn, t_board, u) ==
    [visits |-> 0, wins |-> 0, m_board |-> t_board, m_isTerminal |-> FALSE,
     m_winState |-> 0, m_turn |-> t_turn, m_isFullyExpanded |-> FALSE,
     m_maxChildren |-> Len(generateValidPositions(t_board, u))]

\* the node after MonteCarloNode::isTerminal()
isTerminal(nd) ==
    IF nd.m_isTerminal THEN nd
    ELSE LET terminal == evaluate(nd.m_board).first IN
         [nd EXCEPT !.m_isTerminal = (terminal # {}),
                    !.m_winState = IF terminal # {} THEN ValueOf(terminal) ELSE @]

\* the node after MonteCarloNode::isFullyExpanded(), having nChildren children
isFullyExpanded(nd, nChildren) ==
    IF ~nd.m_isFullyExpanded /\ nd.m_maxChildren = nChildren
        THEN [nd EXCEPT !.m_isFullyExpanded = TRUE]
        ELSE nd

\* MonteCarloNode::applyMove on a node that has nChildren children
applyMove(nd, move, nChildren, u) ==
    LET r == place(nd.m_board, move) IN
    IF r.ok
        THEN [ok |-> TRUE,
              node |-> [isFullyExpanded(
                            isTerminal([nd EXCEPT
                                !.m_board = r.board,
                                !.m_maxChildren =
                                    Len(generateValidPositions(r.board, u))]),
                            nChildren)
                        EXCEPT !.m_turn = getEnemyTile(@)]]
        ELSE [ok |-> FALSE, node |-> nd]

\* the node MonteCarloNode::createChild makes for move
createChild(nd, move, u) ==
    applyMove(MonteCarloNode(nd.m_turn, nd.m_board, u), move, 0, u).node

\* the unit in which the score of bestUCT is computed
Scale == 1000000

\* the unit in which a value of the exploration constant is written before
\* it is converted
Tenths == 10

\* const float c{1.5} of main, which is handed to the constructor of
\* MonteCarloPlayer, in tenths
t_c == 15

\* the conversion of a floating-point value v, given in tenths, to int: the
\* fraction is dropped
toInt(v) == IF v >= 0 THEN v \div Tenths ELSE -((-v) \div Tenths)

\* the member int m_c, initialised from the parameter int t_c: the argument
\* is converted to int at the call
m_c == toInt(t_c)

\* Scale * sqrt(log(rn) / cn), rounded, in row rn and column cn
SqrtLogOver ==
    << <<0, 0, 0, 0, 0, 0>>,
       <<832555, 588705, 480676, 416277, 372330, 339889>>,
       <<1048147, 741152, 605148, 524074, 468746, 427904>>,
       <<1177410, 832555, 679778, 588705, 526554, 480676>>,
       <<1268636, 897061, 732447, 634318, 567351, 517919>>,
       <<1338566, 946509, 772822, 669283, 598625, 546467>> >>

\* val of bestUCT is a number: with cn = 0 it is 0/0 and with rn = 0 the
\* square root of a negative number, NaN in both cases, for which
\* val > maxVal is false
uctDefined(nd, child) == child.visits > 0 /\ nd.visits > 0

\* val of bestUCT for a child of nd, in units of 1/Scale
uctValue(nd, child) ==
    (child.wins * Scale) \div child.visits
        + m_c * SqrtLogOver[nd.visits][child.visits]

\* the nodes bestUCT may return for the node at p: a child of the largest
\* val, the first of them in the iteration order of the unordered_map, which
\* is any of them; none (nullptr) when no child has a val above maxVal
bestUCT(nodes, p) ==
    LET cs == {q \in Children(nodes, p) : uctDefined(nodes[p], nodes[q])} IN
    {q \in cs : \A r \in cs :
        uctValue(nodes[p], nodes[q]) >= uctValue(nodes[p], nodes[r])}

\* the number of empty cells of a board
nEmpty(b) == Cardinality({p \in AllCells : at(b, p) = {Empty}})

\* monteCarloTreeSearch is entered by the driver's active agent, a
\* MonteCarloPlayer of the active tile with n simulations, at the start of
\* a turn of a game in progress: the root is constructed
StartSearch(n, u) ==
    /\ mcts.pc = "idle"
    /\ ~isGameOver
    /\ last.op = "init" \/ (last.op = "makeMove" /\ last.ok)
    /\ nEmpty(board) <= MaxEmpty
    /\ mcts' = [pc |-> "traverse",
                nodes |-> (Root :> MonteCarloNode(currentPlayer, board, u)),
                node |-> {Root}, res |-> {}, leaf |-> {}, sim |-> {},
                result |-> 0, i |-> 0,
                m_nSimulation |-> n, m_tile |-> currentPlayer]
    /\ UNCHANGED <<board, currentPlayer, isGameOver, last, loopIndex>>

\* one test of the loop of traverse: node is dereferenced, and traverse
\* returns res.second at a terminal node, goes on to expand at a node not
\* fully expanded and to bestUCT otherwise
traverseTest(s) ==
    IF s.node = {} THEN [s EXCEPT !.pc = "crashed"]
    ELSE LET p == ValueOf(s.node)
             nd1 == isTerminal(s.nodes[p])
             nd2 == isFullyExpanded(nd1, Cardinality(Children(s.nodes, p)))
         IN
         IF nd1.m_isTerminal
            THEN [s EXCEPT !.nodes[p] = nd1, !.leaf = s.res, !.pc = "playout"]
            ELSE [s EXCEPT !.nodes[p] = nd2,
                           !.pc = IF nd2.m_isFullyExpanded THEN "bestUCT"
                                                           ELSE "expand"]

Traverse ==
    /\ mcts.pc = "traverse"
    /\ mcts' = traverseTest(mcts)
    /\ UNCHANGED <<board, currentPlayer, isGameOver, last, loopIndex>>

\* a mutant of expand that returns the node it expanded instead of the child
\* it created
expandReturnsNode(s, p, u) ==
    LET nd == s.nodes[p]
        positions == generateValidPositions(nd.m_board, u)
        free == {k \in 1..Len(positions) :
                    Append(p, Mv(positions[k], nd.m_turn)) \notin DOMAIN s.nodes}
        move == Mv(positions[MinOf(free)], nd.m_turn)
    IN
    IF free = {} THEN [s EXCEPT !.leaf = {}, !.pc = "playout"]
    ELSE [s EXCEPT !.nodes = @ @@ (Append(p, move) :> createChild(nd, move, u)),
                   !.leaf = {p},
                   !.pc = "playout"]

\* MonteCarloPlayer::expand on the node at p: the child for the first
\* position that has no child yet, nullptr when every position has one
expand(s, p, u) ==
    LET nd == s.nodes[p]
        positions == generateValidPositions(nd.m_board, u)
        free == {k \in 1..Len(positions) :
                    Append(p, Mv(positions[k], nd.m_turn)) \notin DOMAIN s.nodes}
        move == Mv(positions[MinOf(free)], nd.m_turn)
    IN
    IF free = {} THEN [s EXCEPT !.leaf = {}, !.pc = "playout"]
    ELSE [s EXCEPT !.nodes = @ @@ (Append(p, move) :> createChild(nd, move, u)),
                   !.leaf = {Append(p, move)},
                   !.pc = "playout"]

Expand(u) ==
    /\ mcts.pc = "expand"
    /\ mcts' = expand(mcts, ValueOf(mcts.node), u)
    /\ UNCHANGED <<board, currentPlayer, isGameOver, last, loopIndex>>

\* res = bestUCT(node); node = res.second
BestUCT ==
    /\ mcts.pc = "bestUCT"
    /\ \E next \in (IF bestUCT(mcts.nodes, ValueOf(mcts.node)) = {}
                        THEN {{}}
                        ELSE {{q} : q \in bestUCT(mcts.nodes, ValueOf(mcts.node))}) :
           mcts' = [mcts EXCEPT !.res = next, !.node = next, !.pc = "traverse"]
    /\ UNCHANGED <<board, currentPlayer, isGameOver, last, loopIndex>>

\* ~MonteCarloNode of a node whose children map holds the pointers ptrs:
\* every node they point to is deleted, and with it the nodes below it
destroyChildren(nodes, ptrs) ==
    [x \in {y \in DOMAIN nodes : ~\E c \in ptrs : IsPrefix(c, y)} |-> nodes[x]]

\* the start of playout on the leaf traverse returned: the leaf is
\* dereferenced; a terminal leaf gives its win state, any other is copied
\* into simNode by the implicit copy constructor, which copies the fields
\* and the children map with the pointers it holds; steps counts the passes
\* of the loop of playout that applied a move
playoutStart(s) ==
    IF s.leaf = {} THEN [s EXCEPT !.pc = "crashed"]
    ELSE LET q == ValueOf(s.leaf)
             nd == isTerminal(s.nodes[q])
         IN
         IF nd.m_isTerminal
            THEN [s EXCEPT !.nodes[q] = nd, !.result = nd.m_winState,
                           !.pc = "backpropagate"]
            ELSE [s EXCEPT !.sim = {[node |-> nd,
                                     children |-> Children(s.nodes, q),
                                     steps |-> 0]},
                           !.pc = "simulate"]

Playout ==
    /\ mcts.pc = "playout"
    /\ mcts' = playoutStart(mcts)
    /\ UNCHANGED <<board, currentPlayer, isGameOver, last, loopIndex>>

\* one test of the loop of playout and, when simNode is not terminal, its
\* body: playoutPolicy with rand() % moves.size() = k, then applyMove;
\* rand() % 0 stops the program and a refused move throws.  When simNode is
\* terminal it is deleted, and its destructor deletes the nodes its children
\* map points to
simulateStep(s, sn, nd, u, k) ==
    LET moves == generateValidPositions(nd.m_board, u)
        r == applyMove(nd, Mv(moves[k + 1], nd.m_turn), Cardinality(sn.children), u)
    IN
    IF nd.m_isTerminal
        THEN [s EXCEPT !.nodes = destroyChildren(@, sn.children),
                       !.sim = {}, !.result = nd.m_winState, !.pc = "backpropagate"]
    ELSE IF Len(moves) = 0 THEN [s EXCEPT !.pc = "crashed"]
    ELSE IF ~r.ok THEN [s EXCEPT !.pc = "thrown"]
    ELSE [s EXCEPT !.sim = {[sn EXCEPT !.node = r.node, !.steps = @ + 1]}]

Simulate(u, k) ==
    /\ mcts.pc = "simulate"
    /\ k = 0 \/ k < Len(generateValidPositions(ValueOf(mcts.sim).node.m_board, u))
    /\ mcts' = simulateStep(mcts, ValueOf(mcts.sim),
                            isTerminal(ValueOf(mcts.sim).node), u, k)
    /\ UNCHANGED <<board, currentPlayer, isGameOver, last, loopIndex>>

\* a mutant of backpropagate that adds the result without the sign of the
\* agent's tile
backpropagateUnsigned(s, q) ==
    [x \in DOMAIN s.nodes |->
        IF IsPrefix(x, q)
            THEN [s.nodes[x] EXCEPT !.wins = @ + s.result,
                                    !.visits = @ + 1]
            ELSE s.nodes[x]]

\* a mutant of backpropagate that stops below the root
backpropagateBelowRoot(s, q) ==
    [x \in DOMAIN s.nodes |->
        IF IsPrefix(x, q) /\ x # Root
            THEN [s.nodes[x] EXCEPT !.wins = @ + s.result * s.m_tile,
                                    !.visits = @ + 1]
            ELSE s.nodes[x]]

\* the tree after MonteCarloPlayer::backpropagate from the node at q: the
\* nodes from q up to the root take the result
backpropagate(s, q) ==
    [x \in DOMAIN s.nodes |->
        IF IsPrefix(x, q)
            THEN [s.nodes[x] EXCEPT !.wins = @ + s.result * s.m_tile,
                                    !.visits = @ + 1]
            ELSE s.nodes[x]]

\* backpropagate(leaf, results.value()) and the end of one turn of the
\* simulation loop
Backpropagate ==
    /\ mcts.pc = "backpropagate"
    /\ mcts' = [mcts EXCEPT
                   !.nodes = backpropagate(mcts, ValueOf(mcts.leaf)),
                   !.i = @ + 1,
                   !.node = {Root}, !.res = {}, !.leaf = {},
                   !.pc = IF mcts.i + 1 < mcts.m_nSimulation THEN "traverse"
                                                            ELSE "select"]
    /\ UNCHANGED <<board, currentPlayer, isGameOver, last, loopIndex>>

\* the moves monteCarloTreeSearch may return: that of a child of the root
\* with the most visits, the first of them in the iteration order of the
\* unordered_map; Move{} when no child has a visit
mostVisited(nodes) ==
    LET cs == {q \in Children(nodes, Root) : nodes[q].visits > 0}
        best == {q \in cs : \A r \in cs : nodes[q].visits >= nodes[r].visits}
    IN IF best = {} THEN {DefaultMove} ELSE {q[1] : q \in best}

\* the end of monteCarloTreeSearch: the move is returned to the driver
Select ==
    /\ mcts.pc = "select"
    /\ \E move \in mostVisited(mcts.nodes) :
           last' = Obs("monteCarloTreeSearch", move, TRUE, {}, "")
    /\ mcts' = [mcts EXCEPT !.pc = "done"]
    /\ UNCHANGED <<board, currentPlayer, isGameOver, loopIndex>>

\* the simulation budgets explored: a search of MaxSims simulations passes
\* through the states of every shorter one up to its last simulation
Budgets == {1, MaxSims}

\* a game played by HumanPlayers up to a board with at most MaxEmpty empty
\* cells, on which a MonteCarloPlayer of 1 or of MaxSims simulations searches
NextMCTS ==
    \/ \E c \in -1..Cols :
           mcts.pc = "idle" /\ GameTurn(HumanGetNextMove(board, c, currentPlayer))
    \/ \E n \in Budgets, u \in Reads(board) : StartSearch(n, u)
    \/ Traverse
    \/ \E u \in Reads(board) : Expand(u)
    \/ BestUCT
    \/ Playout
    \/ \E u \in Reads(board), k \in 0..(Cols - 1) : Simulate(u, k)
    \/ Backpropagate
    \/ Select

SpecMCTS == InitGame /\ [][NextMCTS]_vars

\* monteCarloTreeSearch is entered by a MonteCarloPlayer of one simulation,
\* on a board with at most MaxEmpty + 1 empty cells
StartSingle(u) ==
    /\ mcts.pc = "idle"
    /\ ~isGameOver
    /\ last.op = "init" \/ (last.op = "makeMove" /\ last.ok)
    /\ nEmpty(board) <= MaxEmpty + 1
    /\ mcts' = [pc |-> "traverse",
                nodes |-> (Root :> MonteCarloNode(currentPlayer, board, u)),
                node |-> {Root}, res |-> {}, leaf |-> {}, sim |-> {},
                result |-> 0, i |-> 0,
                m_nSimulation |-> 1, m_tile |-> currentPlayer]
    /\ UNCHANGED <<board, currentPlayer, isGameOver, last, loopIndex>>

\* a game played by HumanPlayers up to a board on which a MonteCarloPlayer
\* of one simulation searches: one traverse, one playout, one backpropagate
NextPlayout ==
    \/ \E c \in -1..Cols :
           mcts.pc = "idle" /\ GameTurn(HumanGetNextMove(board, c, currentPlayer))
    \/ \E u \in Reads(board) : StartSingle(u)
    \/ Traverse
    \/ \E u \in Reads(board) : Expand(u)
    \/ BestUCT
    \/ Playout
    \/ \E u \in Reads(board), k \in 0..(Cols - 1) : Simulate(u, k)
    \/ Backpropagate
    \/ Select

SpecPlayout == InitGame /\ [][NextPlayout]_vars

-----------------------------------------------------------------------------
(* A game in which each turn is taken by a HumanPlayer, a MinimaxPlayer or *)
(* a MonteCarloPlayer of the active tile                                   *)

\* a turn of gameLoop with the move a MinimaxPlayer returned as r
MinimaxPlays(r) ==
    \E w \in (IF r.noMoves THEN Garbage ELSE {DefaultMove.pos}) :
        GameTurn(MoveOf(r, w))

\* the active agent is a MinimaxPlayer of search depth depth
MinimaxTurn(depth, u) ==
    /\ ~isGameOver
    /\ mcts.pc = "idle"
    /\ MinimaxPlays(getNextMove(Agent(currentPlayer, getEnemyTile(currentPlayer), u),
                                board, depth))

\* the rest of a turn of gameLoop once makeMove has returned r for the move
\* of a MonteCarloPlayer, whose search is over
SearchEndTurn(r, tag) ==
    /\ board' = r.board
    /\ currentPlayer' = r.currentPlayer
    /\ isGameOver' = (r.value # {})
    /\ last' = Obs("makeMove", NoMove, r.ok, r.value, tag)
    /\ mcts' = NoSearch
    /\ UNCHANGED loopIndex

\* a turn of gameLoop with the move monteCarloTreeSearch returned
SearchedTurn ==
    /\ mcts.pc = "done"
    /\ SearchEndTurn(makeMove(board, currentPlayer, isGameOver, last.move),
                     MoveCase(board, last.move))

NextPlay ==
    \/ NextMCTS
    \/ SearchedTurn
    \/ \E depth \in Depths, u \in Reads(board) : MinimaxTurn(depth, u)

SpecPlay == InitGame /\ [][NextPlay]_vars

-----------------------------------------------------------------------------
(* A game played by HumanPlayers in which, at the start of a turn, a        *)
(* MinimaxPlayer or a MonteCarloPlayer of the active tile is asked for its  *)
(* move                                                                     *)

NextAgents ==
    \/ NextMCTS
    \/ \E depth \in Depths, u \in Reads(board) :
           mcts.pc = "idle" /\ AskMinimax(depth, u)

SpecAgents == InitGame /\ [][NextAgents]_vars

-----------------------------------------------------------------------------
(* Claims about the Board (SpecBoard) *)

\* C1 (as claimed): on every board and for every move, place fails and
\* leaves both bit-sets unchanged when the position is out of range, lies in
\* a full column, is unsupported, or the tile is Empty; and it succeeds only
\* for an in-range, supported position with a Positive or Negative tile.
C1_PlaceRejectsInvalid ==
    \A m \in Moves :
        LET r == place(board, m) IN
        /\ ( \/ ~isValidPosition(m.pos)
             \/ InFullColumn(board, m.pos)
             \/ Unsupported(board, m.pos)
             \/ m.tile = Empty )
           => (~r.ok /\ r.board = board)
        /\ r.ok => ( /\ isValidPosition(m.pos)
                     /\ ~Unsupported(board, m.pos)
                     /\ m.tile \in {Positive, Negative} )

\* C2 (as claimed): on every board and for every move, place followed by
\* remove of the same move leaves both bit-sets as they were.
C2_PlaceRemoveRestores ==
    \A m \in Moves : remove(place(board, m).board, m).board = board

\* C2 (amended): on every board and for every move whose tile's bit is not
\* already set at the move's position, place followed by remove of the same
\* move leaves both bit-sets as they were.
C2_PlaceRemoveRestoresUnlessSet ==
    \A m \in Moves :
        ~BitSet(board, m) => remove(place(board, m).board, m).board = board

\* a place-then-remove whose placement was accepted on an empty cell has run
\* on a board that holds pieces
C2_Witness ==
    /\ last.op = "placeRemove"
    /\ last.ok
    /\ last.tag = "fresh"
    /\ board # EmptyBoard

-----------------------------------------------------------------------------
(* Claims about the move generator and the evaluator (SpecDrop) *)

\* the lowest empty row of column x
LowestEmptyRow(b, x) == MaxOf({r \in 0..(Rows - 1) : at(b, Vec(x, r)) = {Empty}})

RECURSIVE ExpectedFrom(_, _)
ExpectedFrom(b, x) ==
    IF x >= Cols THEN <<>>
    ELSE IF at(b, Vec(x, 0)) = {Empty}
        THEN <<Vec(x, LowestEmptyRow(b, x))>> \o ExpectedFrom(b, x + 1)
    ELSE ExpectedFrom(b, x + 1)

\* one position per column whose top cell is empty, the lowest empty row of
\* the column, in ascending column order
ExpectedPositions(b) == ExpectedFrom(b, 0)

\* C3 (as claimed): on every gravity-respecting board generateValidPositions
\* returns exactly one position per column whose top cell is empty, the
\* lowest empty row of that column, in ascending column order, so at most
\* Cols positions, whatever the read of res.back() on the empty result finds.
C3_GeneratorExact ==
    Gravity(board) =>
        \A u \in Garbage :
            /\ generateValidPositions(board, u) = ExpectedPositions(board)
            /\ Len(generateValidPositions(board, u)) <= Cols

\* negation as long computes it: -min() wraps to min()
NegLong(v) == IF v = LongMin THEN LongMin ELSE -v

\* C8 (as claimed): the score of every board is the negation of the score
\* of the colour-swapped board, also when a colour has won.
C8_ScoreAntisymmetric ==
    evaluate(board).second = NegLong(evaluate(Swap(board)).second)

\* C8 (amended): on every board with disjoint bit-sets the terminal results
\* of the board and of the colour-swapped board are negations of each other;
\* when no colour has won the scores are negations of each other; and when
\* a colour has won the two scores are max() for the board Positive wins and
\* min() for the board Negative wins, which are not negations.
C8_ScoreAntisymmetricUnlessWon ==
    LET e == evaluate(board)
        f == evaluate(Swap(board))
    IN
    Disjoint(board) =>
        /\ f.first = {-t : t \in e.first}
        /\ (e.first \cap {Positive, Negative} = {}) => e.second = -f.second
        /\ \A t \in e.first \cap {Positive, Negative} :
               /\ e.second = Saturated(t)
               /\ f.second = Saturated(-t)
               /\ e.second + f.second = -1

\* evaluate has run on a board with no run and a non-zero score
C8_Witness ==
    /\ last.op = "evaluate"
    /\ last.res = {}
    /\ evaluate(board).second > 0
    /\ Cardinality(board.neg) > 0

\* C17 (as claimed): on every gravity-respecting board for which evaluate
\* reports no terminal result generateValidPositions returns at least one
\* position, whatever the read of res.back() on the empty result finds; an
\* empty move list is returned only for boards with a terminal result.
C17_MovesUnlessTerminal ==
    Gravity(board) =>
        \A u \in Garbage :
            /\ evaluate(board).first = {} => Len(generateValidPositions(board, u)) > 0
            /\ Len(generateValidPositions(board, u)) = 0 => evaluate(board).first # {}

\* C24 (as claimed): whenever generateValidPositions runs on a board, the
\* empty board and the boards whose leftmost non-full column holds no piece
\* included, it reads res.back() only while the result is not empty,
\* whatever an earlier read found.
C24_BackReadOnlyNonEmpty ==
    last.op = "generate" =>
        \A u \in Garbage : ~readsBackOfEmpty(board, 0, <<>>, u)

-----------------------------------------------------------------------------
(* Claims about the evaluator on boards of legal play (SpecHuman) *)

Step(p, d, i) == Vec(p.x + d.x * i, p.y + d.y * i)

\* some horizontal, vertical or diagonal line holds N contiguous tiles t
HasRun(b, t) ==
    \E p \in AllCells, k \in 1..4 :
        \A i \in 0..(N - 1) : at(b, Step(p, Directions[k], i)) = {t}

TopRowFull(b) == \A x \in 0..(Cols - 1) : Occupied(b, Vec(x, 0))

\* C4: on every board reachable by legal play, evaluate returns (+1, max())
\* exactly when a line holds N contiguous Positive tiles, (-1, min())
\* exactly when a line holds N contiguous Negative tiles, (0, 0) exactly
\* when there is no such line and the top row is full, and an absent
\* terminal result otherwise; on the empty board it returns (absent, 0).
C4_EvaluateTerminal ==
    LET e == evaluate(board) IN
    /\ (e.first = {Positive}) <=> HasRun(board, Positive)
    /\ (e.first = {Negative}) <=> HasRun(board, Negative)
    /\ (e.first = {Positive}) => e.second = LongMax
    /\ (e.first = {Negative}) => e.second = LongMin
    /\ (e.first = {0}) <=>
          (~HasRun(board, Positive) /\ ~HasRun(board, Negative) /\ TopRowFull(board))
    /\ (e.first = {0}) => e.second = 0
    /\ e.first \in {{}, {Negative}, {0}, {Positive}}
    /\ (board = EmptyBoard) => e = [first |-> {}, second |-> 0]

\* evaluate has reported a win of Negative on a board of legal play
C4_Witness ==
    /\ last.op = "evaluate"
    /\ last.res = {Negative}
    /\ HasRun(board, Negative)

-----------------------------------------------------------------------------
(* Claims about the game driver (SpecGame, SpecOwnTile) *)

\* C9: a turn whose placement fails leaves the board and the active player
\* unchanged and returns the terminal result of evaluate on that board; as
\* the game was still in progress the result is absent and the game is not
\* over, so the same agent moves next.
C9_FailedMoveKeepsTurn ==
    [][ (last'.op = "makeMove" /\ ~last'.ok) =>
            /\ board' = board
            /\ currentPlayer' = currentPlayer
            /\ last'.res = evaluate(board).first
            /\ last'.res = {}
            /\ ~isGameOver' ]_vars

\* an agent's unsupported move has been refused on a board that holds pieces
C9_Witness ==
    /\ last.op = "makeMove"
    /\ ~last.ok
    /\ last.tag = "unsupported"
    /\ board # EmptyBoard
    /\ ~isGameOver

\* the number of cells that read as tile t
CountTiles(b, t) == Cardinality({p \in AllCells : at(b, p) = {t}})

\* C10 (as claimed): when each agent places only its own tile, the number
\* of Positive tiles minus the number of Negative tiles is 0 or 1 and the
\* Positive agent is active exactly when the counts are equal.
C10_TurnsFollowCounts ==
    /\ CountTiles(board, Positive) - CountTiles(board, Negative) \in {0, 1}
    /\ (currentPlayer = Positive) <=>
          (CountTiles(board, Positive) = CountTiles(board, Negative))

-----------------------------------------------------------------------------
(* Claims about the MinimaxPlayer (SpecMinimax) *)

\* m is a legal move on b that completes a run of N of its tile
CompletesRun(b, m) ==
    /\ MoveCase(b, m) = "fresh"
    /\ HasRun(place(b, m).board, m.tile)

\* some legal move of tile t completes a run of N on b
CanWin(b, t) == \E p \in AllCells : CompletesRun(b, Mv(p, t))

\* C5 (as claimed): whenever a MinimaxPlayer of any depth from 1 to MaxDepth
\* is asked on a board of a game in progress on which some legal move of its
\* tile completes a run of N, the move it returns completes such a run, so
\* that evaluate reports its tile as the winner once the move is placed.
C5_MinimaxTakesWin ==
    (last.op = "getNextMove" /\ CanWin(board, currentPlayer)) =>
        /\ last.move.tile = currentPlayer
        /\ CompletesRun(board, last.move)
        /\ evaluate(place(board, last.move).board).first = {currentPlayer}

\* The depth-bounded minimax without pruning, over generateValidPositions and
\* evaluate: the value and the move of a node, the moves tried in the order
\* of the list, the first of the best kept.  A node at which the agent's own
\* tile moves takes the maximum when the agent is Positive and the minimum
\* when it is Negative, a node of the opponent the other one.
RECURSIVE Minimax(_, _, _, _)
RECURSIVE MinimaxOver(_, _, _, _, _, _, _)

MinimaxOver(ag, b, positions, k, acc, depth, isEnemy) ==
    IF k > Len(positions) THEN acc
    ELSE LET m == Mv(positions[k], currentTileOf(ag, isEnemy))
             v == Minimax(ag, place(b, m).board, depth - 1, ~isEnemy).first
             own == ~isEnemy
             wantsMax == (ag.m_tile = Positive) = own
             better == IF wantsMax THEN v > acc.first ELSE v < acc.first
         IN MinimaxOver(ag, b, positions, k + 1,
                        IF better THEN [acc EXCEPT !.first = v, !.second = m] ELSE acc,
                        depth, isEnemy)

Minimax(ag, b, depth, isEnemy) ==
    LET e == evaluate(b) IN
    IF depth = 0 \/ e.first # {} THEN [first |-> e.second, second |-> DefaultMove,
                                       noMoves |-> FALSE]
    ELSE LET positions == generateValidPositions(b, ag.u)
             noMoves == Len(positions) = 0
             wantsMax == (ag.m_tile = Positive) = ~isEnemy
         IN MinimaxOver(ag, b, positions, 1,
                        [first |-> IF wantsMax THEN LongMin ELSE LongMax,
                         second |-> Mv(IF noMoves THEN DefaultMove.pos ELSE positions[1],
                                       currentTileOf(ag, isEnemy)),
                         noMoves |-> noMoves],
                        depth, isEnemy)

\* the pair the unpruned minimax computes for the agent that was asked
Reference ==
    Minimax(Agent(currentPlayer, getEnemyTile(currentPlayer), Vec(last.tag[2], 0)),
            board, last.tag[1], FALSE)

\* C14: whenever a MinimaxPlayer of depth 1 to MaxDepth is asked on the
\* non-terminal board of a game in progress, the score and the move that
\* the top-level alphabeta call returns equal the score and the move of the
\* unpruned depth-bounded minimax over the same move generator and
\* evaluator, ties keeping the earliest column; when the move list of the
\* root is empty both take their move from positions[0] of that list.
C14_AlphaBetaIsMinimax ==
    last.op = "getNextMove" =>
        \A r \in {Reference} :
            /\ last.res = {r.first}
            /\ last.ok = ~r.noMoves
            /\ last.ok => last.move = r.second
            /\ last.move.tile = r.second.tile

\* a MinimaxPlayer of depth MaxDepth has been asked on a board with a move
\* in every column and has returned a move that is not in the first column
C14_Witness ==
    /\ last.op = "getNextMove"
    /\ last.ok
    /\ last.tag[1] = MaxDepth
    /\ Len(generateValidPositions(board, Vec(last.tag[2], 0))) = Cols
    /\ last.move.pos.x > 0

\* C15: a MinimaxPlayer::getNextMove call leaves the board of the game as it
\* was, and every alphabeta invocation of the call returns with the working
\* board equal to the board it was entered with, also when its loop over
\* the moves ends on a cutoff.
C15_SearchRestoresBoard ==
    /\ [](last.op = "getNextMove" => last.tag[3])
    /\ [][last'.op = "getNextMove" => board' = board]_vars

\* a Positive MinimaxPlayer of depth MaxDepth has answered with a move of
\* score max() that is not the last of the move list: the loop of the root
\* ended on the cutoff beta <= alpha before the last move was tried
C15_Witness ==
    /\ last.op = "getNextMove"
    /\ last.ok
    /\ last.tag[1] = MaxDepth
    /\ last.tag[3]
    /\ currentPlayer = Positive
    /\ last.res = {LongMax}
    /\ \E positions \in {generateValidPositions(board, Vec(last.tag[2], 0))} :
           last.move.pos # positions[Len(positions)]

-----------------------------------------------------------------------------
(* Claims about the MonteCarloPlayer (SpecMCTS) *)

RECURSIVE SumVisits(_, _)
SumVisits(nodes, S) ==
    IF S = {} THEN 0
    ELSE LET q == CHOOSE q \in S : TRUE IN
         nodes[q].visits + SumVisits(nodes, S \ {q})

\* C6: throughout a monteCarloTreeSearch on the board of a game in progress,
\* with i simulations completed, the visit count of the root is i and the
\* visit counts of the root's children sum to i; once the loop has ended, i
\* is the simulation budget.
C6_VisitsSumToSimulations ==
    mcts.pc # "idle" =>
        /\ mcts.nodes[Root].visits = mcts.i
        /\ SumVisits(mcts.nodes, Children(mcts.nodes, Root)) = mcts.i
        /\ mcts.i <= mcts.m_nSimulation
        /\ mcts.pc \in {"select", "done"} => mcts.i = mcts.m_nSimulation

\* a search of at least two simulations has ended with at least two children
\* of the root visited
C6_Witness ==
    /\ mcts.pc = "done"
    /\ mcts.i >= 2
    /\ Cardinality({q \in Children(mcts.nodes, Root) : mcts.nodes[q].visits >= 1}) >= 2

\* C7 (as claimed): whenever bestUCT is evaluated on a node, the node and
\* every one of its children have a visit count of at least 1.
C7_UCTVisitsPositive ==
    mcts.pc = "bestUCT" =>
        /\ mcts.nodes[ValueOf(mcts.node)].visits >= 1
        /\ \A q \in Children(mcts.nodes, ValueOf(mcts.node)) :
               mcts.nodes[q].visits >= 1

\* val of bestUCT for a child of nd with the exploration constant c given in
\* tenths, in units of 1/Scale
uctValueWith(c, nd, child) ==
    (child.wins * Scale) \div child.visits
        + (c * SqrtLogOver[nd.visits][child.visits]) \div Tenths

\* C21 (as claimed): the exploration constant used in the UCT score is the
\* value supplied at the agent's construction, 1.5 for the agent of main:
\* whenever bestUCT is evaluated on a node, the val of every child for which
\* it is a number is winRate + 1.5 * sqrt(ln(parentVisits) / childVisits).
C21_ConstantAsSupplied ==
    mcts.pc = "bestUCT" =>
        \A q \in Children(mcts.nodes, ValueOf(mcts.node)) :
            uctDefined(mcts.nodes[ValueOf(mcts.node)], mcts.nodes[q]) =>
                uctValue(mcts.nodes[ValueOf(mcts.node)], mcts.nodes[q])
                    = uctValueWith(t_c, mcts.nodes[ValueOf(mcts.node)], mcts.nodes[q])

\* C25: in every state of a search, the node that playout has copied into
\* simNode had no children when it was copied, so that the copy holds no
\* pointer into the tree; and no step of the playout, the deletion of
\* simNode at its end included, removes a node of the tree or changes a
\* node other than the leaf, on which isTerminal() is called.
C25_PlayoutCopiesChildless ==
    /\ [](mcts.pc = "simulate" => \A sn \in mcts.sim : sn.children = {})
    /\ [][mcts.pc \in {"playout", "simulate"} =>
            \/ mcts'.pc \in {"crashed", "thrown"}
            \/ /\ DOMAIN mcts'.nodes = DOMAIN mcts.nodes
               /\ \A x \in DOMAIN mcts.nodes \ mcts.leaf :
                      mcts'.nodes[x] = mcts.nodes[x] ]_vars

\* a playout from a non-terminal node below the root has ended and its
\* simNode has been deleted, in a tree of at least three nodes
C25_Witness ==
    /\ mcts.pc = "backpropagate"
    /\ mcts.sim = {}
    /\ Cardinality(DOMAIN mcts.nodes) >= 3
    /\ \E q \in mcts.leaf :
           /\ Len(q) >= 1
           /\ evaluate(mcts.nodes[q].m_board).first = {}

-----------------------------------------------------------------------------
(* Claims about the game loop (SpecLoop) *)

\* the number of makeMove calls made so far: the pass that breaks out of the
\* loop does not increment i
Calls == loopIndex + (IF isGameOver THEN 1 ELSE 0)

\* gameLoop has left its for loop
LoopEnded == isGameOver \/ ~loopTest(loopIndex)

\* C11: gameLoop terminates: every pass of the loop is one makeMove call,
\* which adds 1 to the number of calls, and that number never exceeds
\* maxLimit = 1000; a pass is made only while i < maxLimit and no call has
\* returned a terminal result, so the call that returns a terminal result
\* is the last, and when no call returns one the loop has ended after the
\* 1000th call with no result declared.
C11_GameLoopTerminates ==
    /\ [](Calls <= maxLimit)
    /\ [](Calls = maxLimit /\ ~isGameOver => LoopEnded /\ last.res = {})
    /\ [](isGameOver <=> last.res # {})
    /\ [][ /\ ~LoopEnded
           /\ Calls' = Calls + 1
           /\ last'.op = "makeMove" ]_vars

\* the loop has ended after maxLimit calls, none of which returned a result
C11_Witness ==
    /\ loopIndex = maxLimit
    /\ ~isGameOver
    /\ last.op = "makeMove"
    /\ ~last.ok

\* the legal moves of the node at p that have no child yet, in column order
FreeMoves(nodes, p) ==
    SelectSeq(ExpectedPositions(nodes[p].m_board),
              LAMBDA pos : Append(p, Mv(pos, nodes[p].m_turn)) \notin DOMAIN nodes)

\* C18 (as claimed): each expand call, made on a node that is not terminal
\* and not fully expanded, adds exactly one node to the tree: the child for
\* the lowest-column legal move that has no child yet, with the node's turn
\* tile; the child's board is the node's board with that move applied and
\* its turn the opposite tile; every node that was in the tree is
\* unchanged; and no node has more children than its board has legal moves.
C18_ExpandAddsFirstFree ==
    /\ [][mcts.pc = "expand" =>
            \E p \in mcts.node :
                /\ FreeMoves(mcts.nodes, p) # <<>>
                /\ \E q \in {Append(p, Mv(FreeMoves(mcts.nodes, p)[1],
                                           mcts.nodes[p].m_turn))} :
                       /\ DOMAIN mcts'.nodes = DOMAIN mcts.nodes \cup {q}
                       /\ mcts'.leaf = {q}
                       /\ mcts'.nodes[q].m_board =
                              place(mcts.nodes[p].m_board, q[Len(q)]).board
                       /\ mcts'.nodes[q].m_turn = getEnemyTile(mcts.nodes[p].m_turn)
                /\ \A x \in DOMAIN mcts.nodes : mcts'.nodes[x] = mcts.nodes[x] ]_vars
    /\ [](mcts.pc \notin {"idle"} =>
            \A x \in DOMAIN mcts.nodes :
                Cardinality(Children(mcts.nodes, x))
                    <= Len(ExpectedPositions(mcts.nodes[x].m_board)))

\* the nodes reached from the node at q by following m_parent, q included
RECURSIVE ParentPath(_)
ParentPath(q) ==
    IF q = Root THEN {Root} ELSE {q} \cup ParentPath(SubSeq(q, 1, Len(q) - 1))

\* C19: each backpropagation adds 1 to the visit count and the playout
\* result times the sign of the searching agent's tile to the win
\* accumulator of exactly the nodes on the parent path from the simulated
\* node up to and including the root, and leaves every other node, and
\* every other field of the nodes on the path, unchanged.
C19_BackpropagateAlongPath ==
    [][mcts.pc = "backpropagate" =>
          \A q \in mcts.leaf :
              /\ DOMAIN mcts'.nodes = DOMAIN mcts.nodes
              /\ \A x \in DOMAIN mcts.nodes :
                     IF x \in ParentPath(q)
                         THEN mcts'.nodes[x] =
                                  [mcts.nodes[x] EXCEPT
                                      !.visits = @ + 1,
                                      !.wins = @ + mcts.result * mcts.m_tile]
                         ELSE mcts'.nodes[x] = mcts.nodes[x] ]_vars

\* a Negative agent has backpropagated a result other than 0 from a node two
\* moves below the root, in a tree that holds a node off the path
C19_Witness ==
    /\ mcts.pc \in {"traverse", "select"}
    /\ mcts.m_tile = Negative
    /\ \E q \in DOMAIN mcts.nodes :
           /\ Len(q) = 2
           /\ mcts.nodes[q].visits = 1
           /\ mcts.nodes[q].wins # 0
           /\ \E x \in DOMAIN mcts.nodes :
                  x \notin ParentPath(q) /\ mcts.nodes[x].visits = 1

\* the children of the root with the highest visit count
MostVisitedChildren(nodes) ==
    {q \in Children(nodes, Root) :
        \A r \in Children(nodes, Root) : nodes[q].visits >= nodes[r].visits}

\* C20 (as claimed): once the simulation budget is exhausted,
\* monteCarloTreeSearch returns the move of the child of the root with the
\* highest visit count, and of the lowest column among the children that
\* share the highest visit count.
C20_ReturnsMostVisitedLowest ==
    (mcts.pc = "done" /\ Children(mcts.nodes, Root) # {}) =>
        \E q \in MostVisitedChildren(mcts.nodes) :
            /\ last.move = q[1]
            /\ \A r \in MostVisitedChildren(mcts.nodes) : q[1].pos.x <= r[1].pos.x

-----------------------------------------------------------------------------
(* Claims about games played by the three kinds of agent (SpecPlay) *)

\* C12 (as claimed): in every state of the board reached through makeMove
\* from the empty board with moves of a HumanPlayer given any column, of a
\* MinimaxPlayer or of a MonteCarloPlayer, no cell is set in both bit-sets
\* and every occupied cell has every cell below it occupied.
C12_BoardDisjointGravity == Disjoint(board) /\ Gravity(board)

-----------------------------------------------------------------------------
(* Claims about the moves the search agents return (SpecAgents) *)

\* the elements of a sequence
Range(seq) == {seq[k] : k \in 1..Len(seq)}

\* C22 (as claimed): asked on a non-terminal board of a game, a
\* MinimaxPlayer of depth 1 to MaxDepth and a MonteCarloPlayer of 1 or
\* MaxSims simulations each return a move: the search does not stop the
\* program, the move's tile is the agent's own tile, its position is one of
\* the positions generateValidPositions returns for the board, for some
\* value of the read of res.back(), and the driver's placement of it
\* succeeds.
C22_AgentsReturnLegalOwnMove ==
    /\ mcts.pc \notin {"crashed", "thrown"}
    /\ (last.op = "getNextMove" \/ mcts.pc = "done") =>
          /\ last.move.tile = currentPlayer
          /\ \E u \in Garbage : last.move.pos \in Range(generateValidPositions(board, u))
          /\ place(board, last.move).ok

-----------------------------------------------------------------------------
(* Claims about games of legal moves (SpecLegal) *)

\* C23: when both agents return a legal move of their own tile on every
\* turn, on a board of Rows * Cols <= maxLimit cells, the game loop
\* eventually declares a Positive win, a Negative win or a draw; every pass
\* of the loop applies one move, and a result is declared after at most
\* Rows * Cols applied moves; the winner declared by a pass is the colour
\* of the tile that pass placed.
C23_LegalGameEnds ==
    /\ Rows * Cols <= maxLimit => <>isGameOver
    /\ [](isGameOver => last.res \in {{Positive}, {Negative}, {0}})
    /\ [](Calls = nBits(board) /\ nBits(board) <= Rows * Cols)
    /\ [](nBits(board) = Rows * Cols => isGameOver)
    /\ [][ /\ nBits(board') = nBits(board) + 1
           /\ last'.ok
           /\ last'.res \subseteq {0, currentPlayer} ]_vars

\* a draw has been declared on the full board
C23_Witness ==
    /\ isGameOver
    /\ last.res = {0}
    /\ nBits(board) = Rows * Cols
    /\ last.tag = "fresh"

-----------------------------------------------------------------------------
(* Claims about the incremental evaluator (SpecLast) *)

\* C13: for every board obtained by an accepted placement on a
\* gravity-respecting board for which evaluate(board) had no terminal
\* result, the terminal result of evaluate(board, position of the move)
\* equals the terminal result of evaluate(board).
C13_IncrementalAgrees ==
    last.op = "placeEvaluate" => last.res = evaluate(board).first

\* the incremental evaluator has reported the win of Negative that a
\* placement on an empty cell completed
C13_Witness ==
    /\ last.op = "placeEvaluate"
    /\ last.tag = "fresh"
    /\ last.move.tile = Negative
    /\ last.res = {Negative}
    /\ HasRun(board, Negative)

-----------------------------------------------------------------------------
(* Claims about the playout (SpecPlayout) *)

\* C16 (as claimed): a playout from a node of the search tree applies at
\* most as many moves as the node's board has empty cells and ends with a
\* result of -1, 0 or +1; at every step of it the move list is not empty,
\* whatever the read of res.back() finds, and every move of the list is
\* accepted by place, so that the playout never throws.
C16_PlayoutCompletes ==
    /\ mcts.pc # "thrown"
    /\ mcts.pc = "backpropagate" => mcts.result \in {-1, 0, 1}
    /\ mcts.pc = "simulate" =>
          \A sn \in mcts.sim :
              /\ sn.steps <= nEmpty(mcts.nodes[ValueOf(mcts.leaf)].m_board)
              /\ ~isTerminal(sn.node).m_isTerminal =>
                    \A u \in Garbage :
                        \A moves \in {generateValidPositions(sn.node.m_board, u)} :
                            /\ Len(moves) > 0
                            /\ \A k \in 1..Len(moves) :
                                   place(sn.node.m_board,
                                         Mv(moves[k], sn.node.m_turn)).ok

====
